---- MODULE Spec2Model ----
(***************************************************************************)
(* Model of the ClusterVersion reconciler of ocs-client-operator           *)
(* (controllers/clusterversion_controller.go): one Reconcile pass as a     *)
(* sequence of remote calls against an optimistically-concurrent object    *)
(* store, interleaved with external writers, plus the event router set up  *)
(* by SetupWithManager.                                                    *)
(***************************************************************************)
EXTENDS Integers, Sequences, FiniteSets, TLC

VARIABLES
    store,      \* the remote object store: object name -> stored object
    pc,         \* position of the running Reconcile pass
    obj,        \* in-memory object of the step in progress (after Get and mutate)
    existing,   \* the object as the step's Get returned it (not live: not found)
    operatorConfig, \* the config map getOperatorConfig returned to Reconcile
    result,     \* what the last finished pass returned: "none", "ok", "err", "panic"
    log,        \* remote calls and step errors of the current (or last) pass
    passes,     \* passes started so far
    extUsed,    \* external writes made so far
    clean,      \* no external write since the current (or last) pass started
    prevOk,     \* the pass before the current one returned ok, untouched since it started
    event,      \* the watch event being routed
    requests,   \* reconcile requests the router produced for the last event
    queue,      \* the work queue: a set of request keys
    processing  \* the request keys the workers are running Reconcile for

vars == <<store, pc, obj, existing, operatorConfig, result, log, passes, extUsed,
          clean, prevOk, event, requests, queue, processing>>

passVars == <<store, pc, obj, existing, operatorConfig, result, log, passes, extUsed,
              clean, prevOk>>

routerVars == <<event, requests, queue, processing>>

(***************************************************************************)
(* Bounds of the model.                                                    *)
(***************************************************************************)
MaxPasses == 2
MaxExternal == 1
MaxLines == 3
MaxWorkers == 2

(***************************************************************************)
(* Text: a string is a sequence of one-character strings.                  *)
(***************************************************************************)
NL == "\n"

\* strings.TrimSpace
RECURSIVE TrimLeft(_)
TrimLeft(s) ==
    IF s # <<>> /\ Head(s) \in {" ", "\t", "\r", "\n"} THEN TrimLeft(Tail(s)) ELSE s

RECURSIVE TrimRight(_)
TrimRight(s) ==
    IF s # <<>> /\ s[Len(s)] \in {" ", "\t", "\r", "\n"}
    THEN TrimRight(SubSeq(s, 1, Len(s) - 1))
    ELSE s

TrimSpace(s) == TrimRight(TrimLeft(s))

\* strings.Split(s, sep) for a one-character sep: always at least one element
RECURSIVE Split(_, _)
Split(s, sep) ==
    IF \E i \in 1..Len(s) : s[i] = sep
    THEN LET i == CHOOSE k \in 1..Len(s) :
                      s[k] = sep /\ \A j \in 1..(k - 1) : s[j] # sep
         IN <<SubSeq(s, 1, i - 1)>> \o Split(SubSeq(s, i + 1, Len(s)), sep)
    ELSE <<s>>

\* a line cut at every sep
SplitAtEvery(s, sep) == Split(s, sep)

\* strings.SplitN(s, sep, 2): cut at the first sep only
SplitN2(s, sep) ==
    IF \E i \in 1..Len(s) : s[i] = sep
    THEN LET i == CHOOSE k \in 1..Len(s) :
                      s[k] = sep /\ \A j \in 1..(k - 1) : s[j] # sep
         IN <<SubSeq(s, 1, i - 1), SubSeq(s, i + 1, Len(s))>>
    ELSE <<s>>

\* a Go map as a function; m[k] = v added or overwritten
MapPut(m, k, v) ==
    [x \in DOMAIN m \cup {k} |-> IF x = k THEN v ELSE m[x]]

EmptyMap == <<>>

\* the loop passing over the lines that have no colon
RECURSIVE applyLabelsSkipping(_, _, _)
applyLabelsSkipping(lines, i, promLabel) ==
    IF i > Len(lines) THEN [panic |-> FALSE, labels |-> promLabel]
    ELSE LET parts == SplitN2(lines[i], ":")
         IN IF Len(parts) < 2
            THEN applyLabelsSkipping(lines, i + 1, promLabel)
            ELSE applyLabelsSkipping(lines, i + 1,
                     MapPut(promLabel, TrimSpace(parts[1]), TrimSpace(parts[2])))

\* the loop of applyLabels over the lines from index i on
RECURSIVE applyLabelsLoop(_, _, _)
applyLabelsLoop(lines, i, promLabel) ==
    IF i > Len(lines) THEN [panic |-> FALSE, labels |-> promLabel]
    ELSE IF Len(lines[i]) = 0 THEN applyLabelsLoop(lines, i + 1, promLabel)
    ELSE LET parts == SplitN2(lines[i], ":")
         IN IF Len(parts) < 2
            THEN [panic |-> TRUE, labels |-> promLabel]
            ELSE applyLabelsLoop(lines, i + 1,
                     MapPut(promLabel, TrimSpace(parts[1]), TrimSpace(parts[2])))

\* applyLabels(label, t): t.Labels is replaced by the parsed map; a line
\* without a colon indexes parts[1] out of range
applyLabels(label, t) ==
    LET r == applyLabelsLoop(Split(label, NL), 1, EmptyMap)
    IN [panic |-> r.panic,
        meta |-> IF r.panic THEN t ELSE [t EXCEPT !.labels = r.labels]]

\* every value read as true
ParseBoolAlwaysTrue(value) == [err |-> FALSE, b |-> TRUE]

\* a value that is no boolean literal read as false
ParseBoolLenient(value) ==
    [err |-> FALSE, b |-> value \in {<<"1">>, <<"t">>, <<"t","r","u","e">>}]

\* strconv.ParseBool
ParseBool(value) ==
    IF value \in {<<"1">>, <<"t">>, <<"T">>, <<"T","R","U","E">>,
                  <<"t","r","u","e">>, <<"T","r","u","e">>}
    THEN [err |-> FALSE, b |-> TRUE]
    ELSE IF value \in {<<"0">>, <<"f">>, <<"F">>, <<"F","A","L","S","E">>,
                       <<"f","a","l","s","e">>, <<"F","a","l","s","e">>}
    THEN [err |-> FALSE, b |-> FALSE]
    ELSE [err |-> TRUE, b |-> FALSE]

(***************************************************************************)
(* Objects of the remote store.                                            *)
(***************************************************************************)
\* read by the pass, never written except the subscription's label
Inputs == {"clusterVersion", "operatorConfigMap", "storageClusterCRD",
           "subscription", "consoleDeployment", "OperatorDeployment"}

Workloads == {"cephFSDeployment", "cephFSDaemonSet", "rbdDeployment", "rbdDaemonSet"}

WriteOnce == {"monConfigMap", "encConfigMap"}

CSIDrivers == {"cephfsCSIDriver", "rbdCSIDriver"}

\* objects synchronised through createOrUpdate
CreateOrUpdateObjs == {"whConfig", "nginxConfigMap", "consoleService", "consolePlugin",
                       "scc", "prometheusRule"} \cup Workloads

Managed == CreateOrUpdateObjs \cup WriteOnce \cup CSIDrivers

Objects == Inputs \cup Managed

\* the resource set deployed only when the deploy flag is on
CSIResources == {"scc", "prometheusRule"} \cup Workloads \cup WriteOnce \cup CSIDrivers

\* cluster-scoped kinds: they cannot carry a reference to a namespaced owner
ClusterScoped == {"whConfig", "consolePlugin", "scc", "clusterVersion",
                  "storageClusterCRD"} \cup CSIDrivers

\* kinds whose update without a resourceVersion is applied unconditionally
\* by the store (built-in kinds); custom-resource kinds reject it
UnconditionalUpdateKinds == {"consoleService", "nginxConfigMap", "monConfigMap",
                             "encConfigMap", "whConfig", "consoleDeployment"}
                            \cup Workloads \cup CSIDrivers

deployCSIKey == "DEPLOY_CSI"
metricsLabelsKey == "OCS_METRICS_LABELS"
subscriptionLabelKey == "managed-by"
subscriptionLabelValue == "webhook.subscription.ocs.openshift.io"
OperatorNamespace == "openshift-storage"
namespaceNameLabel == "kubernetes.io/metadata.name"

\* an object as the desired-state functions of pkg/console, pkg/csi and
\* pkg/templates return it: no resourceVersion, no owner reference
Template ==
    [live |-> TRUE, rv |-> 0, spec |-> "desired", owner |-> "none",
     hooks |-> <<>>, labels |-> EmptyMap, data |-> EmptyMap]

\* a zero-value object carrying only its name
ZeroObj == [Template EXCEPT !.spec = "zero"]

\* templates.SubscriptionValidatingWebhook, one entry of Webhooks
SubscriptionValidatingWebhook ==
    [cfg |-> "desired", ca |-> 0, namespaceSelector |-> EmptyMap,
     objectSelector |-> EmptyMap]

\* the in-memory object a createOrUpdate step is handed before its Get
Shell(o) ==
    IF o \in {"nginxConfigMap", "consoleService", "consolePlugin", "prometheusRule"}
    THEN Template
    ELSE ZeroObj

Absent(o) == [Template EXCEPT !.live = FALSE, !.spec = "absent"]

(***************************************************************************)
(* The remote store: get, create and update with optimistic concurrency.   *)
(***************************************************************************)
\* a Get that reports every object as missing
GetNeverFinds(s, o) == [outcome |-> "notfound", obj |-> s[o]]

Get(s, o) ==
    IF s[o].live THEN [outcome |-> "ok", obj |-> s[o]]
    ELSE [outcome |-> "notfound", obj |-> s[o]]

\* a create that removes the object it finds in its way
CreateReplacing(s, o, x) ==
    IF s[o].live
    THEN [outcome |-> "exists",
          store |-> [s EXCEPT ![o] = [@ EXCEPT !.live = FALSE, !.spec = "absent"]]]
    ELSE [outcome |-> "ok",
          store |-> [s EXCEPT ![o] = [x EXCEPT !.live = TRUE, !.rv = s[o].rv + 1]]]

Create(s, o, x) ==
    IF s[o].live THEN [outcome |-> "exists", store |-> s]
    ELSE [outcome |-> "ok",
          store |-> [s EXCEPT ![o] = [x EXCEPT !.live = TRUE, !.rv = s[o].rv + 1]]]

Update(s, o, x) ==
    IF ~s[o].live THEN [outcome |-> "notfound", store |-> s]
    ELSE IF x.rv = 0 /\ o \notin UnconditionalUpdateKinds
    THEN [outcome |-> "invalid", store |-> s]
    ELSE IF x.rv # 0 /\ x.rv # s[o].rv
    THEN [outcome |-> "conflict", store |-> s]
    ELSE [outcome |-> "ok",
          store |-> [s EXCEPT ![o] = [x EXCEPT !.live = TRUE, !.rv = s[o].rv + 1]]]

(***************************************************************************)
(* Ownership and the mutate functions handed to createOrUpdate.            *)
(***************************************************************************)
\* controllerutil.SetControllerReference: refuses an object that another
\* controller owns, and a namespaced owner for a cluster-scoped object
SetControllerReference(owner, x, o) ==
    IF o \in ClusterScoped \/ x.owner \notin {"none", owner}
    THEN [err |-> TRUE, obj |-> x]
    ELSE [err |-> FALSE, obj |-> [x EXCEPT !.owner = owner]]

own(x, o) == SetControllerReference("OperatorDeployment", x, o)

\* the webhook as its template gives it, the two selectors left unset
webhookFromTemplate(caBundle) ==
    [SubscriptionValidatingWebhook EXCEPT !.ca = caBundle]

\* "webhook desired state": the template, requests from the operator's
\* namespace only, objects carrying the subscription label only, and the
\* bundle handed in
webhookDesiredState(caBundle) ==
    [SubscriptionValidatingWebhook EXCEPT
        !.namespaceSelector = [k \in {namespaceNameLabel} |-> OperatorNamespace],
        !.objectSelector = [k \in {subscriptionLabelKey} |-> subscriptionLabelValue],
        !.ca = caBundle]

\* the webhook overwritten by its desired state, the bundle not carried over
whConfigMutateDropCA(x) ==
    LET hooks == IF Len(x.hooks) = 0 THEN <<SubscriptionValidatingWebhook>> ELSE x.hooks
    IN [err |-> FALSE, panic |-> FALSE,
        obj |-> [x EXCEPT !.spec = "desired",
                          !.hooks = [hooks EXCEPT ![1] = webhookDesiredState(0)]]]

\* the mutate function of reconcileSubscriptionValidatingWebhook
whConfigMutate(x) ==
    LET caBundle == IF Len(x.hooks) = 0 THEN 0 ELSE x.hooks[1].ca
        hooks == IF Len(x.hooks) = 0 THEN <<SubscriptionValidatingWebhook>> ELSE x.hooks
        wh == webhookDesiredState(caBundle)
    IN [err |-> FALSE, panic |-> FALSE,
        obj |-> [x EXCEPT !.spec = "desired", !.hooks = [hooks EXCEPT ![1] = wh]]]

nginxConfigMapMutate(x) ==
    LET r == SetControllerReference("consoleDeployment",
                                    [x EXCEPT !.spec = "desired"], "nginxConfigMap")
    IN [err |-> r.err, panic |-> FALSE, obj |-> r.obj]

\* the owner reference is set first and the whole object, metadata included,
\* is then overwritten by a deep copy of the template
consoleServiceMutate(x) ==
    LET r == SetControllerReference("consoleDeployment", x, "consoleService")
    IN [err |-> r.err, panic |-> FALSE, obj |-> IF r.err THEN r.obj ELSE Template]

consolePluginMutate(x) ==
    [err |-> FALSE, panic |-> FALSE, obj |-> [Template EXCEPT !.rv = x.rv]]

sccMutate(x) ==
    [err |-> FALSE, panic |-> FALSE, obj |-> [Template EXCEPT !.rv = x.rv]]

workloadMutate(x, o) ==
    LET r == own(x, o)
    IN [err |-> r.err, panic |-> FALSE,
        obj |-> IF r.err THEN r.obj ELSE [r.obj EXCEPT !.spec = "desired"]]

\* Go's map index: the zero value when the key is missing
MapGet(m, k) == IF k \in DOMAIN m THEN m[k] ELSE <<>>

prometheusRuleMutate(x, cm) ==
    LET a == applyLabels(MapGet(cm.data, metricsLabelsKey), x)
        r == own(a.meta, "prometheusRule")
    IN IF a.panic THEN [err |-> TRUE, panic |-> TRUE, obj |-> x]
       ELSE [err |-> r.err, panic |-> FALSE, obj |-> r.obj]

MutateFn(o, x, cm) ==
    CASE o = "whConfig" -> whConfigMutate(x)
      [] o = "nginxConfigMap" -> nginxConfigMapMutate(x)
      [] o = "consoleService" -> consoleServiceMutate(x)
      [] o = "consolePlugin" -> consolePluginMutate(x)
      [] o = "scc" -> sccMutate(x)
      [] o = "prometheusRule" -> prometheusRuleMutate(x, cm)
      [] OTHER -> workloadMutate(x, o)

\* utils.AddLabel: reports whether the label had to be set
AddLabel(x, key, value) ==
    IF key \in DOMAIN x.labels /\ x.labels[key] = value
    THEN [changed |-> FALSE, obj |-> x]
    ELSE [changed |-> TRUE, obj |-> [x EXCEPT !.labels = MapPut(x.labels, key, value)]]


(***************************************************************************)
(* One Reconcile pass.  Every remote call is one step; a call may fail     *)
(* with a transport error (fail).                                          *)
(***************************************************************************)
StepOrder ==
    <<"whConfig", "subscription", "consoleDeployment", "nginxConfigMap",
      "consoleService", "consolePlugin", "getDeployCSIConfig", "clusterVersion",
      "scc", "monConfigMap", "encConfigMap", "cephFSDeployment", "cephFSDaemonSet",
      "rbdDeployment", "rbdDaemonSet", "cephfsCSIDriver", "rbdCSIDriver",
      "getOperatorConfig", "prometheusRule", "return">>

StepIndex(step) == CHOOSE i \in 1..Len(StepOrder) : StepOrder[i] = step

Idle == [step |-> "idle", phase |-> "read"]

At(step, phase) == pc = [step |-> step, phase |-> phase]

\* the step Reconcile runs after `step`
After(step) == [step |-> StepOrder[StepIndex(step) + 1], phase |-> "read"]

\* a step's error logged and dropped: the pass goes on
AdvanceIgnoringError(e, next) ==
    IF next.step = "return" THEN pc' = Idle /\ result' = "ok"
    ELSE pc' = next /\ result' = result

\* Reconcile's `if err != nil { return ctrl.Result{}, err }` after a step:
\* e is "none", "err" or "panic"
Advance(e, next) ==
    IF e # "none" THEN pc' = Idle /\ result' = e
    ELSE IF next.step = "return" THEN pc' = Idle /\ result' = "ok"
    ELSE pc' = next /\ result' = result

\* one line of the pass's log: a remote call, or a step's local failure
Entry(op, o, token, read, outcome, err) ==
    [step |-> pc.step, op |-> op, o |-> o, token |-> token, read |-> read,
     outcome |-> outcome, err |-> err]

Errored(outcome) == IF outcome = "ok" THEN "none" ELSE "err"

\* Reconcile is entered for a request
Reconcile ==
    /\ pc = Idle
    /\ passes < MaxPasses
    /\ store["OperatorDeployment"].live
    /\ pc' = [step |-> "whConfig", phase |-> "read"]
    /\ passes' = passes + 1
    /\ log' = <<>>
    /\ result' = "none"
    /\ prevOk' = (result = "ok" /\ clean)
    /\ clean' = TRUE
    /\ UNCHANGED <<store, obj, existing, operatorConfig, extUsed, routerVars>>

\* controllerutil.CreateOrUpdate, first half: Get, then the mutate function,
\* then the comparison with the fetched copy
createOrUpdateGet(o, fail) ==
    /\ At(o, "read")
    /\ LET g == Get(store, o)
           base == IF g.outcome = "ok" THEN g.obj ELSE Shell(o)
           m == MutateFn(o, base, operatorConfig)
           call == Entry("get", o, 0, g.obj.rv,
                         IF fail THEN "fail" ELSE g.outcome, fail)
       IN IF fail
          THEN /\ log' = Append(log, call)
               /\ Advance("err", Idle)
               /\ UNCHANGED <<obj, existing>>
          ELSE IF m.err
          THEN /\ log' = log \o <<call, Entry("local", o, 0, 0,
                                     IF m.panic THEN "panic" ELSE "owned", TRUE)>>
               /\ Advance(IF m.panic THEN "panic" ELSE "err", Idle)
               /\ UNCHANGED <<obj, existing>>
          ELSE IF g.outcome = "ok" /\ m.obj = g.obj
          THEN /\ log' = Append(log, call)
               /\ Advance("none", After(o))
               /\ UNCHANGED <<obj, existing>>
          ELSE /\ log' = Append(log, call)
               /\ pc' = [step |-> o, phase |-> "write"]
               /\ result' = result
               /\ obj' = m.obj
               /\ existing' = g.obj
    /\ UNCHANGED <<store, operatorConfig, passes, extUsed, clean, prevOk, routerVars>>

\* controllerutil.CreateOrUpdate, second half: Create when the Get found
\* nothing, Update otherwise
createOrUpdateWrite(o, fail) ==
    /\ At(o, "write")
    /\ LET w == IF existing.live THEN Update(store, o, obj) ELSE Create(store, o, obj)
           op == IF existing.live THEN "update" ELSE "create"
           outcome == IF fail THEN "fail" ELSE w.outcome
       IN /\ store' = IF fail THEN store ELSE w.store
          /\ log' = Append(log, Entry(op, o, obj.rv, existing.rv, outcome,
                                      outcome # "ok"))
          /\ Advance(Errored(outcome), After(o))
    /\ UNCHANGED <<obj, existing, operatorConfig, passes, extUsed, clean, prevOk,
                   routerVars>>

\* labelClientOperatorSubscription: List, Find, AddLabel
labelClientOperatorSubscriptionList(fail) ==
    /\ At("subscription", "read")
    /\ LET g == Get(store, "subscription")
           a == AddLabel(g.obj, subscriptionLabelKey, subscriptionLabelValue)
           call == Entry("list", "subscription", 0, g.obj.rv,
                         IF fail THEN "fail" ELSE "ok", fail)
       IN IF fail
          THEN /\ log' = Append(log, call)
               /\ Advance("err", Idle)
               /\ UNCHANGED <<obj, existing>>
          ELSE IF g.outcome # "ok"
          THEN /\ log' = log \o <<call, Entry("local", "subscription", 0, 0,
                                               "nosubscription", TRUE)>>
               /\ Advance("err", Idle)
               /\ UNCHANGED <<obj, existing>>
          ELSE IF ~a.changed
          THEN /\ log' = Append(log, call)
               /\ Advance("none", After("subscription"))
               /\ UNCHANGED <<obj, existing>>
          ELSE /\ log' = Append(log, call)
               /\ pc' = [step |-> "subscription", phase |-> "write"]
               /\ result' = result
               /\ obj' = a.obj
               /\ existing' = g.obj
    /\ UNCHANGED <<store, operatorConfig, passes, extUsed, clean, prevOk, routerVars>>

\* the update sends a fresh object that carries only the label
labelClientOperatorSubscriptionOverwrite(fail) ==
    /\ At("subscription", "write")
    /\ LET w == Update(store, "subscription",
                       [Template EXCEPT !.rv = obj.rv, !.labels = obj.labels])
           outcome == IF fail THEN "fail" ELSE w.outcome
       IN /\ store' = IF fail THEN store ELSE w.store
          /\ log' = Append(log, Entry("update", "subscription", obj.rv, existing.rv,
                                      outcome, outcome # "ok"))
          /\ Advance(Errored(outcome), After("subscription"))
    /\ UNCHANGED <<obj, existing, operatorConfig, passes, extUsed, clean, prevOk,
                   routerVars>>

\* labelClientOperatorSubscription: c.Update(c.ctx, sub)
labelClientOperatorSubscriptionUpdate(fail) ==
    /\ At("subscription", "write")
    /\ LET w == Update(store, "subscription", obj)
           outcome == IF fail THEN "fail" ELSE w.outcome
       IN /\ store' = IF fail THEN store ELSE w.store
          /\ log' = Append(log, Entry("update", "subscription", obj.rv, existing.rv,
                                      outcome, outcome # "ok"))
          /\ Advance(Errored(outcome), After("subscription"))
    /\ UNCHANGED <<obj, existing, operatorConfig, passes, extUsed, clean, prevOk,
                   routerVars>>

\* the console resources skipped when there is no console deployment
ensureConsolePluginTolerant(fail) ==
    /\ At("consoleDeployment", "read")
    /\ LET g == Get(store, "consoleDeployment")
           outcome == IF fail THEN "fail" ELSE g.outcome
       IN /\ log' = Append(log, Entry("get", "consoleDeployment", 0, g.obj.rv,
                                      outcome, fail))
          /\ Advance(IF fail THEN "err" ELSE "none",
                     IF outcome = "ok" THEN After("consoleDeployment")
                     ELSE [step |-> "getDeployCSIConfig", phase |-> "read"])
    /\ UNCHANGED <<store, obj, existing, operatorConfig, passes, extUsed, clean,
                   prevOk, routerVars>>

\* ensureConsolePlugin: the Get of the console deployment
ensureConsolePlugin(fail) ==
    /\ At("consoleDeployment", "read")
    /\ LET g == Get(store, "consoleDeployment")
           outcome == IF fail THEN "fail" ELSE g.outcome
       IN /\ log' = Append(log, Entry("get", "consoleDeployment", 0, g.obj.rv,
                                      outcome, outcome # "ok"))
          /\ Advance(Errored(outcome), After("consoleDeployment"))
    /\ UNCHANGED <<store, obj, existing, operatorConfig, passes, extUsed, clean,
                   prevOk, routerVars>>


\* getDeployCSIConfig: the Get of the operator config map and the parse of
\* the DEPLOY_CSI value; any error of the Get, not-found included, is returned
getDeployCSIConfig(fail) ==
    /\ At("getDeployCSIConfig", "read")
    /\ LET g == Get(store, "operatorConfigMap")
           outcome == IF fail THEN "fail" ELSE g.outcome
           call == Entry("get", "operatorConfigMap", 0, g.obj.rv, outcome,
                         outcome # "ok")
           data == g.obj.data
           parsed == ParseBool(data[deployCSIKey])
       IN IF outcome # "ok"
          THEN /\ log' = Append(log, call)
               /\ Advance("err", Idle)
          ELSE IF deployCSIKey \in DOMAIN data
          THEN IF parsed.err
               THEN /\ log' = log \o <<call, Entry("local", "operatorConfigMap", 0, 0,
                                                   "parse", TRUE)>>
                    /\ Advance("err", Idle)
               ELSE /\ log' = Append(log, call)
                    /\ Advance("none", IF parsed.b THEN After("getDeployCSIConfig")
                                       ELSE [step |-> "return", phase |-> "read"])
          ELSE /\ log' = Append(log, call)
               /\ pc' = [step |-> "getDeployCSIConfig", phase |-> "probe"]
               /\ result' = result
    /\ UNCHANGED <<store, obj, existing, operatorConfig, passes, extUsed, clean,
                   prevOk, routerVars>>

\* the branches of the CRD probe swapped
DefaultDeployCSISwapped(outcome) == outcome = "ok"

\* getDeployCSIConfig: the default when the key is absent, from the outcome
\* of the Get of the StorageCluster CRD
DefaultDeployCSI(outcome) == outcome = "notfound"

\* getDeployCSIConfig: the probe for the StorageCluster CRD when the key is absent
getDeployCSIConfigProbe(fail) ==
    /\ At("getDeployCSIConfig", "probe")
    /\ LET g == Get(store, "storageClusterCRD")
           outcome == IF fail THEN "fail" ELSE g.outcome
           deployCSI == DefaultDeployCSI(outcome)
       IN /\ log' = Append(log, Entry("get", "storageClusterCRD", 0, g.obj.rv,
                                      outcome, fail))
          /\ IF fail THEN Advance("err", Idle)
             ELSE Advance("none", IF deployCSI THEN After("getDeployCSIConfig")
                                  ELSE [step |-> "return", phase |-> "read"])
    /\ UNCHANGED <<store, obj, existing, operatorConfig, passes, extUsed, clean,
                   prevOk, routerVars>>

\* Reconcile: the Get of the ClusterVersion instance and csi.InitializeSidecars
getClusterVersion(fail, sidecarsFail) ==
    /\ At("clusterVersion", "read")
    /\ LET g == Get(store, "clusterVersion")
           outcome == IF fail THEN "fail" ELSE g.outcome
           call == Entry("get", "clusterVersion", 0, g.obj.rv, outcome,
                         outcome # "ok")
       IN IF outcome # "ok"
          THEN log' = Append(log, call) /\ Advance("err", Idle)
          ELSE IF sidecarsFail
          THEN /\ log' = log \o <<call, Entry("local", "clusterVersion", 0, 0,
                                              "sidecars", TRUE)>>
               /\ Advance("err", Idle)
          ELSE log' = Append(log, call) /\ Advance("none", After("clusterVersion"))
    /\ UNCHANGED <<store, obj, existing, operatorConfig, passes, extUsed, clean,
                   prevOk, routerVars>>

\* the content Reconcile gives the monitor and encryption config maps
WriteOnceConfigMap == Template

\* already-exists treated like any other error of the create
CreateFailedStrict(outcome) == outcome # "ok"

\* Reconcile: `err != nil && !kerrors.IsAlreadyExists(err)` after the create
CreateFailed(outcome) == outcome \notin {"ok", "exists"}

\* Reconcile: own and create of a write-once config map; already-exists is
\* not an error
createWriteOnce(o, fail) ==
    /\ o \in WriteOnce
    /\ At(o, "read")
    /\ LET r == own(WriteOnceConfigMap, o)
           w == Create(store, o, r.obj)
           outcome == IF fail THEN "fail" ELSE w.outcome
           err == CreateFailed(outcome)
       IN IF r.err
          THEN /\ log' = Append(log, Entry("local", o, 0, 0, "owned", TRUE))
               /\ Advance("err", Idle)
               /\ store' = store
          ELSE /\ log' = Append(log, Entry("create", o, 0, 0, outcome, err))
               /\ Advance(IF err THEN "err" ELSE "none", After(o))
               /\ store' = IF fail THEN store ELSE w.store
    /\ UNCHANGED <<obj, existing, operatorConfig, passes, extUsed, clean, prevOk,
                   routerVars>>

\* csi.CreateCSIDriver: the Get of the driver descriptor
CreateCSIDriverGet(o, fail) ==
    /\ o \in CSIDrivers
    /\ At(o, "read")
    /\ LET g == Get(store, o)
           outcome == IF fail THEN "fail" ELSE g.outcome
       IN /\ log' = Append(log, Entry("get", o, 0, g.obj.rv, outcome, fail))
          /\ IF fail THEN Advance("err", Idle)
             ELSE IF outcome = "ok" THEN Advance("none", After(o))
             ELSE pc' = [step |-> o, phase |-> "write"] /\ result' = result
    /\ UNCHANGED <<store, obj, existing, operatorConfig, passes, extUsed, clean,
                   prevOk, routerVars>>

\* csi.CreateCSIDriver: the Create when the Get found nothing
CreateCSIDriverCreate(o, fail) ==
    /\ o \in CSIDrivers
    /\ At(o, "write")
    /\ LET w == Create(store, o, Template)
           outcome == IF fail THEN "fail" ELSE w.outcome
       IN /\ store' = IF fail THEN store ELSE w.store
          /\ log' = Append(log, Entry("create", o, 0, 0, outcome, outcome # "ok"))
          /\ Advance(Errored(outcome), After(o))
    /\ UNCHANGED <<obj, existing, operatorConfig, passes, extUsed, clean, prevOk,
                   routerVars>>

\* getOperatorConfig: a missing config map is returned as an empty one
getOperatorConfig(fail) ==
    /\ At("getOperatorConfig", "read")
    /\ LET g == Get(store, "operatorConfigMap")
           outcome == IF fail THEN "fail" ELSE g.outcome
       IN /\ log' = Append(log, Entry("get", "operatorConfigMap", 0, g.obj.rv,
                                      outcome, fail))
          /\ operatorConfig' = IF outcome = "ok" THEN g.obj ELSE ZeroObj
          /\ Advance(IF fail THEN "err" ELSE "none", After("getOperatorConfig"))
    /\ UNCHANGED <<store, obj, existing, passes, extUsed, clean, prevOk, routerVars>>

(***************************************************************************)
(* Other writers of the store: the service that injects the certificate    *)
(* bundle, users and other controllers, and the garbage collector.         *)
(***************************************************************************)
CABundles == {1, 2}

External(s) ==
    /\ extUsed < MaxExternal
    /\ extUsed' = extUsed + 1
    /\ store' = s
    /\ clean' = FALSE
    /\ prevOk' = FALSE
    /\ UNCHANGED <<pc, obj, existing, operatorConfig, result, log, passes, routerVars>>

Bump(x) == [x EXCEPT !.rv = x.rv + 1]

\* the service-ca operator fills in the bundle of the first webhook
InjectCABundle(b) ==
    /\ store["whConfig"].live
    /\ Len(store["whConfig"].hooks) > 0
    /\ store["whConfig"].hooks[1].ca # b
    /\ External([store EXCEPT !["whConfig"] =
                    Bump([@ EXCEPT !.hooks = [@ EXCEPT ![1] = [@ EXCEPT !.ca = b]]])])

\* another writer changes the content of a stored object
ExternalEdit(o) ==
    /\ store[o].live
    /\ \/ store[o].spec # "drift"
       \/ Len(store[o].hooks) > 0 /\ store[o].hooks[1].cfg # "drift"
    /\ External([store EXCEPT ![o] =
                    Bump([@ EXCEPT !.spec = "drift",
                                   !.hooks = IF Len(@) = 0 THEN @
                                             ELSE [@ EXCEPT ![1] =
                                                      [@ EXCEPT !.cfg = "drift",
                                                                !.namespaceSelector = EmptyMap,
                                                                !.objectSelector = EmptyMap]]])])

\* a webhook entry another writer made: its own configuration and selectors
ForeignWebhook(b) ==
    [cfg |-> "drift", ca |-> b,
     namespaceSelector |-> [k \in {namespaceNameLabel} |-> "default"],
     objectSelector |-> [k \in {"app", subscriptionLabelKey} |-> "other"]]

ExternalContents(o) ==
    IF o = "whConfig"
    THEN {[Template EXCEPT !.spec = "drift", !.hooks = h] :
             h \in {<<>>, <<ForeignWebhook(1)>>, <<ForeignWebhook(0), ForeignWebhook(2)>>}}
    ELSE IF o = "prometheusRule"
    THEN {[Template EXCEPT !.spec = "drift", !.owner = w, !.labels = l] :
             w \in {"none", "other"},
             l \in {EmptyMap, [k \in {<<"a">>, <<"t">>} |-> <<"u">>]}}
    ELSE {[Template EXCEPT !.spec = "drift", !.owner = w] :
             w \in IF o \in ClusterScoped THEN {"none"} ELSE {"none", "other"}}

\* another writer takes the labels off the subscription
ExternalUnlabel ==
    /\ store["subscription"].live
    /\ store["subscription"].labels # EmptyMap
    /\ External([store EXCEPT !["subscription"] = Bump([@ EXCEPT !.labels = EmptyMap])])

\* another writer creates an object the engine manages before the engine does
ExternalCreate(o, x) ==
    /\ ~store[o].live
    /\ External([store EXCEPT ![o] = [x EXCEPT !.rv = store[o].rv + 1]])

\* another writer deletes a stored object
ExternalDelete(o) ==
    /\ store[o].live
    /\ External([store EXCEPT ![o] = [Absent(o) EXCEPT !.rv = store[o].rv]])

\* uninstall: the controller's own deployment is deleted
DeleteOperatorDeployment ==
    /\ pc = Idle
    /\ passes > 0
    /\ store["OperatorDeployment"].live
    /\ store' = [store EXCEPT !["OperatorDeployment"] =
                    [Absent("OperatorDeployment") EXCEPT
                        !.rv = store["OperatorDeployment"].rv]]
    /\ clean' = FALSE
    /\ prevOk' = FALSE
    /\ UNCHANGED <<pc, obj, existing, operatorConfig, result, log, passes, extUsed,
                   routerVars>>

\* owner-reference garbage collection: an object whose controller owner is
\* gone is deleted
GarbageCollect ==
    LET orphans == {o \in Managed : /\ store[o].live
                                     /\ store[o].owner \in Objects
                                     /\ ~store[store[o].owner].live}
    IN /\ orphans # {}
       /\ store' = [o \in Objects |->
                       IF o \in orphans THEN [Absent(o) EXCEPT !.rv = store[o].rv]
                       ELSE store[o]]
       /\ UNCHANGED <<pc, obj, existing, operatorConfig, result, log, passes, extUsed,
                      clean, prevOk, routerVars>>

Writers ==
    \/ \E b \in CABundles : InjectCABundle(b)
    \/ \E o \in Managed \cup {"subscription"} : ExternalEdit(o)
    \/ ExternalUnlabel
    \/ \E o \in Managed : \E x \in ExternalContents(o) : ExternalCreate(o, x)
    \/ \E o \in Managed : ExternalDelete(o)
    \/ DeleteOperatorDeployment
    \/ GarbageCollect


(***************************************************************************)
(* The event router built by SetupWithManager: five watches, their         *)
(* predicates, and the request each one enqueues.                          *)
(***************************************************************************)
operatorConfigMapName == "ocs-client-operator-config"
clusterVersionName == "version"
SubscriptionWebhookName == "subscription.ocs.openshift.io"

WatchedKinds == {"ClusterVersion", "ConfigMap", "CustomResourceDefinition",
                 "Subscription", "ValidatingWebhookConfiguration"}

\* predicate.GenerationChangedPredicate: filters update events only
GenerationChangedPredicate(e) ==
    e.type = "update" => e.generationNew # e.generationOld

\* predicate.LabelChangedPredicate: filters update events only
LabelChangedPredicate(e) ==
    e.type = "update" => e.labelsNew # e.labelsOld

configMapPredicates(e) ==
    (e.namespace = OperatorNamespace) /\ (e.name = operatorConfigMapName)

subscriptionPredicates(e) ==
    e.namespace = OperatorNamespace /\ LabelChangedPredicate(e)

webhookPredicates(e) == e.name = SubscriptionWebhookName

clusterVersionPredicates(e) == GenerationChangedPredicate(e)

\* a map function that asks for the operator config map
enqueueOperatorConfigRequest(e) ==
    <<[namespace |-> OperatorNamespace, name |-> operatorConfigMapName]>>

\* a map function that asks for the changed object itself
enqueueChangedObject(e) ==
    <<[namespace |-> e.namespace, name |-> e.name]>>

\* the map function of the four Watches: the request never depends on the object
enqueueClusterVersionRequest(e) ==
    <<[namespace |-> "", name |-> clusterVersionName]>>

\* For(&ClusterVersion{}): the request is the changed object's own key
enqueueRequestForObject(e) ==
    <<[namespace |-> e.namespace, name |-> e.name]>>

\* the requests the controller built by SetupWithManager produces for an event
SetupWithManager(e) ==
    CASE e.kind = "ClusterVersion" ->
            IF clusterVersionPredicates(e) THEN enqueueRequestForObject(e) ELSE <<>>
      [] e.kind = "ConfigMap" ->
            IF configMapPredicates(e) THEN enqueueClusterVersionRequest(e) ELSE <<>>
      [] e.kind = "CustomResourceDefinition" -> enqueueClusterVersionRequest(e)
      [] e.kind = "Subscription" ->
            IF subscriptionPredicates(e) THEN enqueueClusterVersionRequest(e) ELSE <<>>
      [] e.kind = "ValidatingWebhookConfiguration" ->
            IF webhookPredicates(e) THEN enqueueClusterVersionRequest(e) ELSE <<>>
      [] OTHER -> <<>>

EventNamespaces(kind) ==
    IF kind \in {"ConfigMap", "Subscription"} THEN {OperatorNamespace, "default"}
    ELSE {""}

EventNames(kind) ==
    CASE kind = "ClusterVersion" -> {clusterVersionName}
      [] kind = "ConfigMap" -> {operatorConfigMapName, "kube-root-ca.crt"}
      [] kind = "CustomResourceDefinition" ->
            {"storageclusters.ocs.openshift.io", "consoleplugins.console.openshift.io"}
      [] kind = "Subscription" -> {"ocs-client-operator", "odf-operator"}
      [] kind = "ValidatingWebhookConfiguration" ->
            {SubscriptionWebhookName, "other.webhook"}

EventLabels ==
    {EmptyMap, [k \in {subscriptionLabelKey} |-> subscriptionLabelValue]}

Generations == {1, 2}

\* the change events the watches can deliver; create and delete events carry
\* one object, update events the old and the new one
Events ==
    {e \in [kind : WatchedKinds, type : {"create", "update", "delete"},
            namespace : {OperatorNamespace, "default", ""},
            name : UNION {EventNames(k) : k \in WatchedKinds},
            generationOld : Generations, generationNew : Generations,
            labelsOld : EventLabels, labelsNew : EventLabels] :
        /\ e.namespace \in EventNamespaces(e.kind)
        /\ e.name \in EventNames(e.kind)
        /\ e.type # "update" =>
              e.generationOld = e.generationNew /\ e.labelsOld = e.labelsNew}

\* a watch delivers an event: the predicates and the handler run, and the
\* requests go to the work queue
Deliver(e) ==
    /\ event' = e
    /\ requests' = SetupWithManager(e)
    /\ queue' = queue \cup {requests'[i] : i \in DOMAIN requests'}
    /\ UNCHANGED processing
    /\ UNCHANGED passVars

\* a free worker takes a request off the queue and enters Reconcile; the
\* queue hands out no key that a worker is still running
Dequeue(r) ==
    /\ r \in queue
    /\ r \notin processing
    /\ Cardinality(processing) < MaxWorkers
    /\ queue' = queue \ {r}
    /\ processing' = processing \cup {r}
    /\ UNCHANGED <<event, requests>>
    /\ UNCHANGED passVars

\* Reconcile returned for a request
Done(r) ==
    /\ r \in processing
    /\ processing' = processing \ {r}
    /\ UNCHANGED <<event, requests, queue>>
    /\ UNCHANGED passVars


(***************************************************************************)
(* Initial states: a cluster on which nothing has been deployed yet.       *)
(***************************************************************************)
ConfigDatas ==
    { EmptyMap,
      [k \in {deployCSIKey} |-> <<"t","r","u","e">>],
      [k \in {deployCSIKey} |-> <<"f","a","l","s","e">>],
      [k \in {deployCSIKey} |-> <<"0">>],
      [k \in {deployCSIKey} |-> <<"y","e","s">>],
      [k \in {metricsLabelsKey} |-> <<"a",":"," ","b","\n">>],
      [k \in {metricsLabelsKey} |-> <<"a","b">>] }

NoEvent == [kind |-> "none", type |-> "none", namespace |-> "", name |-> "",
            generationOld |-> 1, generationNew |-> 1,
            labelsOld |-> EmptyMap, labelsNew |-> EmptyMap]

\* left: the managed objects an earlier installation left behind, with the
\* content that installation gave them
InitialStore(cfg, crd, left) ==
    [o \in Objects |->
        CASE o = "operatorConfigMap" -> cfg
          [] o \in left -> [Template EXCEPT !.rv = 1, !.spec = "old"]
          [] o = "storageClusterCRD" ->
                IF crd THEN [Template EXCEPT !.rv = 1] ELSE Absent(o)
          [] o \in Inputs \ {"operatorConfigMap", "storageClusterCRD"} ->
                [Template EXCEPT !.rv = 1]
          [] OTHER -> Absent(o)]

\* no pass has run yet over one of the given stores
InitPassOver(stores) ==
    /\ store \in stores
    /\ pc = Idle
    /\ obj = ZeroObj
    /\ existing = ZeroObj
    /\ operatorConfig = ZeroObj
    /\ result = "none"
    /\ log = <<>>
    /\ passes = 0
    /\ extUsed = 0
    /\ clean = TRUE
    /\ prevOk = FALSE

InitPass(cfgs, crds, lefts) ==
    InitPassOver({InitialStore(cfg, crd, left) :
                     cfg \in cfgs, crd \in crds, left \in lefts})

InitRouter ==
    /\ event = NoEvent
    /\ requests = <<>>
    /\ queue = {}
    /\ processing = {}

ConfigMapWith(d) == [Template EXCEPT !.rv = 1, !.data = d]

Init ==
    /\ InitPass({Absent("operatorConfigMap")} \cup {ConfigMapWith(d) : d \in ConfigDatas},
                BOOLEAN, {{}})
    /\ InitRouter

\* the steps of a pass; Faults is the set of outcomes of the transport:
\* {FALSE} when every call reaches the store
PassStep(Faults) ==
    \/ Reconcile
    \/ \E fail \in Faults :
        \/ \E o \in CreateOrUpdateObjs :
            createOrUpdateGet(o, fail) \/ createOrUpdateWrite(o, fail)
        \/ labelClientOperatorSubscriptionList(fail)
        \/ labelClientOperatorSubscriptionUpdate(fail)
        \/ ensureConsolePlugin(fail)
        \/ getDeployCSIConfig(fail)
        \/ getDeployCSIConfigProbe(fail)
        \/ \E sidecarsFail \in Faults : getClusterVersion(fail, sidecarsFail)
        \/ \E o \in WriteOnce : createWriteOnce(o, fail)
        \/ \E o \in CSIDrivers : CreateCSIDriverGet(o, fail) \/ CreateCSIDriverCreate(o, fail)
        \/ getOperatorConfig(fail)

\* passes over every configuration, with calls that may fail
Next == PassStep(BOOLEAN)

Spec == Init /\ [][Next]_vars

\* passes interleaved with the other writers of the store
InitWriters ==
    /\ InitPass({ConfigMapWith([k \in {metricsLabelsKey} |-> <<"a",":"," ","b","\n">>]),
                 ConfigMapWith([k \in {deployCSIKey} |-> <<"f","a","l","s","e">>])},
                {FALSE}, {{}, {"scc"}})
    /\ InitRouter

NextWriters == PassStep({FALSE}) \/ Writers

SpecWriters == InitWriters /\ [][NextWriters]_vars

\* passes that keep being delivered and run to their end; from pass
\* MaxPasses on every call reaches the store
\* version tokens are only compared for equality, and only with copies a
\* pass fetched itself: between two passes they can be renumbered
Renumbered(s) ==
    [o \in Objects |-> [s[o] EXCEPT !.rv = IF s[o].live THEN 1 ELSE 0]]

\* a request whose pass returned an error is delivered again; these passes
\* are not counted, and start from renumbered version tokens
Requeue ==
    /\ pc = Idle
    /\ result \in {"err", "panic"}
    /\ passes = MaxPasses
    /\ store["OperatorDeployment"].live
    /\ pc' = [step |-> "whConfig", phase |-> "read"]
    /\ log' = <<>>
    /\ result' = "none"
    /\ prevOk' = FALSE
    /\ clean' = TRUE
    /\ store' = Renumbered(store)
    /\ obj' = ZeroObj
    /\ existing' = ZeroObj
    /\ operatorConfig' = ZeroObj
    /\ UNCHANGED <<passes, extUsed, routerVars>>

NextConverge ==
    \/ PassStep(IF passes < MaxPasses THEN BOOLEAN ELSE {FALSE})
    \/ Requeue

SpecConverge == Init /\ [][NextConverge]_vars /\ WF_vars(NextConverge)

\* the lines a label specification is made of: empty, key:value with and
\* without blanks around key and value, a value holding a colon, a second
\* key, a line without a colon, and a line of one blank
LineTexts ==
    { <<>>, <<"a",":","b">>, <<" ","a"," ",":"," ","c"," ">>, <<"a",":","b",":","c">>,
      <<"b",":">>, <<"a","b">>, <<" ">> }

RECURSIVE JoinLines(_)
JoinLines(ls) ==
    IF ls = <<>> THEN <<>>
    ELSE IF Len(ls) = 1 THEN ls[1]
    ELSE ls[1] \o <<NL>> \o JoinLines(Tail(ls))

\* the values of OCS_METRICS_LABELS: up to MaxLines lines joined by newlines
LabelTexts ==
    {JoinLines(ls) : ls \in UNION {[1..n -> LineTexts] : n \in 0..MaxLines}}

\* passes over every label specification
InitLabels ==
    /\ InitPass({ConfigMapWith([k \in {metricsLabelsKey} |-> t]) : t \in LabelTexts},
                {FALSE}, {{}, {"prometheusRule"}})
    /\ InitRouter

NextLabels == PassStep({FALSE})

SpecLabels == InitLabels /\ [][NextLabels]_vars

\* the objects a pass needs and does not make: the operator's subscription
\* and the console deployment
Prerequisites == {"subscription", "consoleDeployment"}

\* a store with the objects of `missing` not there
Without(s, missing) ==
    [o \in Objects |-> IF o \in missing THEN Absent(o) ELSE s[o]]

\* the operator is installed before its subscription or the console
\* deployment exists
InitPrereq ==
    /\ InitPassOver({Without(InitialStore(ConfigMapWith(EmptyMap), FALSE, {}), missing) :
                        missing \in (SUBSET Prerequisites) \ {{}}})
    /\ InitRouter

\* a missing prerequisite is created by its owner
PrerequisiteAppears(o) ==
    /\ o \in Prerequisites
    /\ ~store[o].live
    /\ store' = [store EXCEPT ![o] = [Template EXCEPT !.rv = store[o].rv + 1]]
    /\ clean' = FALSE
    /\ prevOk' = FALSE
    /\ UNCHANGED <<pc, obj, existing, operatorConfig, result, log, passes, extUsed,
                   routerVars>>

NextPrereq ==
    \/ PassStep({FALSE})
    \/ \E o \in Prerequisites : PrerequisiteAppears(o)

SpecPrereq == InitPrereq /\ [][NextPrereq]_vars

\* the event router alone
NextRouter ==
    \/ \E e \in Events : Deliver(e)
    \/ \E r \in queue : Dequeue(r)
    \/ \E r \in processing : Done(r)

SpecRouter == InitWriters /\ [][NextRouter]_vars

(***************************************************************************)
(* Properties.                                                             *)
(***************************************************************************)
Finished == pc = Idle /\ result # "none"

Last == log[Len(log)]

Writes(os) == {i \in DOMAIN log : log[i].op \in {"create", "update"} /\ log[i].o \in os}

\* no call of the pass met a transport error, and the sidecars initialised
NoFault == \A i \in DOMAIN log : log[i].outcome \notin {"fail", "sidecars"}

\* C1: a pass that returns ok right after a pass that returned ok, with no
\* other writer in between, issues no create and no update for a webhook
\* registration, subscription, console config map, console service, console
\* plugin, security-policy object, workload or monitoring rule.
C1_SecondPassWritesNothing ==
    (Finished /\ result = "ok" /\ prevOk /\ clean)
        => Writes(CreateOrUpdateObjs \cup {"subscription"}) = {}

\* C2: a missing operator config map is read as an empty mapping: no read of
\* it returns an error, and with the trigger object present, the config map
\* and the CRD absent, a pass without transport errors returns ok with every
\* CSI resource created.
C2_AbsentConfigIsNoError ==
    /\ \A i \in DOMAIN log :
          (log[i].o = "operatorConfigMap" /\ log[i].outcome = "notfound") => ~log[i].err
    /\ ( /\ Finished /\ NoFault
         /\ store["clusterVersion"].live
         /\ ~store["operatorConfigMap"].live
         /\ ~store["storageClusterCRD"].live )
        => (result = "ok" /\ \A o \in CSIResources : store[o].live)


\* the pass has gone past flag resolution into the CSI steps
ResolvedTrue ==
    \/ pc # Idle /\ StepIndex(pc.step) > StepIndex("getDeployCSIConfig")
    \/ Finished /\ log # <<>> /\ StepIndex(Last.step) > StepIndex("getDeployCSIConfig")

\* the pass returned ok from flag resolution
ResolvedFalse ==
    Finished /\ result = "ok" /\ log # <<>> /\ Last.step = "getDeployCSIConfig"

\* flag resolution returned an error although its calls reached the store
ResolveFailed ==
    /\ Finished /\ result = "err" /\ log # <<>>
    /\ Last.step = "getDeployCSIConfig" /\ Last.outcome # "fail"

\* C3: with the operator config map read, a DEPLOY_CSI key holding a boolean
\* resolves to that boolean whether or not the StorageCluster CRD exists; with
\* no key the flag resolves to true when the CRD is absent and to false when
\* it is present.
C3_FlagResolution ==
    LET cfg == store["operatorConfigMap"]
        crd == store["storageClusterCRD"].live
        present == deployCSIKey \in DOMAIN cfg.data
        v == cfg.data[deployCSIKey]
    IN cfg.live =>
        /\ (present /\ v \in {<<"t","r","u","e">>, <<"1">>})
              => (~ResolvedFalse /\ ~ResolveFailed)
        /\ (present /\ v \in {<<"f","a","l","s","e">>, <<"0">>})
              => (~ResolvedTrue /\ ~ResolveFailed)
        /\ (~present /\ ~crd) => (~ResolvedFalse /\ ~ResolveFailed)
        /\ (~present /\ crd) => (~ResolvedTrue /\ ~ResolveFailed)

\* with no key in the config map and the CRD present, a pass returned ok
\* from the CRD probe
C3_Witness ==
    /\ ResolvedFalse
    /\ store["operatorConfigMap"].live
    /\ deployCSIKey \notin DOMAIN store["operatorConfigMap"].data
    /\ store["storageClusterCRD"].live
    /\ Last.o = "storageClusterCRD"


\* the stored webhook registration has a certificate bundle in its first entry
HasCABundle(s) ==
    s["whConfig"].live /\ Len(s["whConfig"].hooks) > 0 /\ s["whConfig"].hooks[1].ca # 0

C5_WriteOnce ==
    [][\A o \in WriteOnce :
          (store[o].live /\ pc' # pc) =>
              /\ store'[o] = store[o]
              /\ At(o, "read") =>
                    /\ pc' = After(o)
                    /\ result' = result
                    /\ log'[Len(log')].outcome = "exists"
                    /\ ~log'[Len(log')].err]_vars

\* a pass met a config map another writer had created with its own content
\* and went on
C5_Witness ==
    /\ log # <<>>
    /\ Last.o \in WriteOnce /\ Last.outcome = "exists"
    /\ store[Last.o].spec = "drift" /\ store[Last.o].owner # "OperatorDeployment"
    /\ pc = After(Last.o)


\* C6: every update a pass issues carries the version token the pass read
\* when it fetched the object; an update whose token is stale fails, ends the
\* pass with that error and leaves the store as the other writer left it.
C6_UpdatesCarryFetchedToken ==
    [][(log' # log /\ log' # <<>> /\ log'[Len(log')].op = "update") =>
          LET e == log'[Len(log')]
          IN /\ e.token = e.read
             /\ e.outcome = "ok" => e.token = store[e.o].rv
             /\ e.token # store[e.o].rv =>
                   (e.err /\ pc' = Idle /\ result' = "err" /\ store' = store)]_vars

\* the pass went through every step and returned ok
EnabledPassOk ==
    Finished /\ result = "ok" /\ log # <<>> /\ Last.step = "prometheusRule"

\* the namespace-scoped resources the engine owns
OwnedResources ==
    {"nginxConfigMap", "consoleService", "prometheusRule"} \cup WriteOnce \cup Workloads

\* C7: after a pass that returns ok with the flag on, the console config map,
\* the console service, the write-once config maps the engine created, the
\* four workloads and the monitoring rule are stored with an owner reference
\* to the controller's own deployment.
C7_OwnedByOperatorDeployment ==
    (EnabledPassOk /\ extUsed = 0) =>
        \A o \in OwnedResources :
            store[o].live /\ store[o].owner = "OperatorDeployment"

Orphans ==
    {o \in Managed : /\ store[o].live
                     /\ store[o].owner \in Objects
                     /\ ~store[store[o].owner].live}

\* C8: from the store a successful enabled pass produced, deleting the
\* controller's deployment and collecting garbage removes every owned
\* namespace-scoped resource and leaves the two driver descriptors and the
\* security-policy object, which carry no owner reference.
C8_CascadeOnUninstall ==
    ( /\ EnabledPassOk /\ extUsed = 0
      /\ ~store["OperatorDeployment"].live
      /\ Orphans = {} )
        => /\ \A o \in OwnedResources : ~store[o].live
           /\ \A o \in CSIDrivers \cup {"scc"} :
                 store[o].live /\ store[o].owner = "none"

\* the events the watches' predicates are said to drop
FilteredOut(e) ==
    \/ /\ e.kind = "ConfigMap"
       /\ (e.namespace # "openshift-storage" \/ e.name # "ocs-client-operator-config")
    \/ /\ e.kind = "Subscription"
       /\ \/ e.namespace # "openshift-storage"
          \/ e.type = "update" /\ e.labelsNew = e.labelsOld
    \/ /\ e.kind = "ValidatingWebhookConfiguration"
       /\ e.name # "subscription.ocs.openshift.io"
    \/ /\ e.kind = "ClusterVersion"
       /\ e.type = "update" /\ e.generationNew = e.generationOld

\* C9: for every event on a watched kind the router enqueues nothing or
\* exactly one request, for the trigger object (name "version", no
\* namespace) and not for the config map, CRD, subscription or webhook that
\* changed; it enqueues nothing exactly when the event is filtered out.
C9_EventRouting ==
    event # NoEvent =>
        /\ requests \in {<<>>, <<[namespace |-> "", name |-> "version"]>>}
        /\ (requests = <<>>) <=> FilteredOut(event)
        /\ \A i \in DOMAIN requests :
              event.kind # "ClusterVersion" =>
                  requests[i] # [namespace |-> event.namespace, name |-> event.name]

\* a change of the operator config map was routed to the trigger object
C9_Witness ==
    /\ event.kind = "ConfigMap" /\ event.type = "update"
    /\ event.name = operatorConfigMapName /\ event.namespace = OperatorNamespace
    /\ requests = <<[namespace |-> "", name |-> clusterVersionName]>>

\* the place of a call in the order of steps the claim gives
ClaimedRank(e) ==
    CASE e.o = "whConfig" -> 1
      [] e.o = "subscription" -> 2
      [] e.o \in {"consoleDeployment", "nginxConfigMap", "consoleService",
                  "consolePlugin"} -> 3
      [] e.o \in {"operatorConfigMap", "storageClusterCRD"}
            /\ e.step = "getDeployCSIConfig" -> 4
      [] e.o = "clusterVersion" -> 5
      [] e.o = "scc" -> 6
      [] e.o = "monConfigMap" -> 7
      [] e.o = "encConfigMap" -> 8
      [] e.o \in Workloads -> 9
      [] e.o \in CSIDrivers -> 10
      [] OTHER -> 11

\* C10: the calls of a pass follow the order webhook registration,
\* subscription, console resources, flag resolution, trigger object,
\* security-policy object, monitoring config map, encryption config map,
\* workloads, driver descriptors, monitoring rule; a step's error is the last
\* thing the pass does and is what the pass returns; and what earlier steps
\* wrote stays in the store.
C10_OrderedAbort ==
    /\ \A i, j \in DOMAIN log : i < j => ClaimedRank(log[i]) <= ClaimedRank(log[j])
    /\ \A i \in DOMAIN log :
          log[i].err => (i = Len(log) /\ Finished /\ result \in {"err", "panic"})
    /\ (Finished /\ result \in {"err", "panic"}) => (log # <<>> /\ Last.err)
    /\ \A i \in DOMAIN log :
          (log[i].op \in {"create", "update"} /\ log[i].outcome = "ok")
              => (store[log[i].o].live /\ store[log[i].o].rv > log[i].read)

\* a pass failed at a CSI step after earlier steps had written
C10_Witness ==
    /\ Finished /\ result = "err" /\ log # <<>>
    /\ Last.step = "cephFSDaemonSet" /\ Last.op = "create" /\ Last.outcome = "fail"
    /\ \E i \in DOMAIN log :
          log[i].o = "cephFSDeployment" /\ log[i].op = "create" /\ log[i].outcome = "ok"
    /\ store["cephFSDeployment"].live /\ ~store["cephFSDaemonSet"].live


\* the stored configuration turns the deploy flag off
FlagOff ==
    LET cfg == store["operatorConfigMap"]
    IN /\ cfg.live
       /\ IF deployCSIKey \in DOMAIN cfg.data
          THEN cfg.data[deployCSIKey] \in {<<"f","a","l","s","e">>, <<"0">>}
          ELSE store["storageClusterCRD"].live

\* C11: with the deploy flag off, a pass that reaches flag resolution returns
\* ok there, makes no call for the trigger object, the security-policy
\* object, the write-once config maps, the workloads, the driver descriptors
\* or the monitoring rule, and no step of it changes any of these objects in
\* the store.
C11_DisabledLeavesCSIUntouched ==
    [][FlagOff =>
          /\ \A i \in DOMAIN log' :
                log'[i].o \notin CSIResources \cup {"clusterVersion"}
          /\ (pc' = Idle /\ log' # <<>> /\ log'[Len(log')].step = "getDeployCSIConfig")
                => result' = "ok"
          /\ pc' # pc => \A o \in CSIResources : store'[o] = store[o]]_vars

\* a pass with the flag off returned ok while CSI resources of an earlier
\* installation or of another writer were in the store
C11_Witness ==
    /\ FlagOff /\ ResolvedFalse
    /\ store["scc"].live /\ store["scc"].spec = "old"
    /\ \E o \in Workloads : store[o].live /\ store[o].spec = "drift"


\* C12: one call of createOrUpdate for an object makes at most one remote
\* write: a create when its Get found nothing, an update when the Get found
\* the object and the mutated copy differs from it, none when the mutated
\* copy equals the fetched object; after the write the call is over.
C12_OneWritePerCall ==
    [][\A o \in CreateOrUpdateObjs :
          /\ (At(o, "read") /\ pc' # pc) =>
                LET m == MutateFn(o, IF store[o].live THEN store[o] ELSE Shell(o),
                                  operatorConfig)
                    writes == (pc' = [step |-> o, phase |-> "write"])
                IN /\ store' = store
                   /\ \A i \in DOMAIN log' : i > Len(log) => log'[i].op \in {"get", "local"}
                   /\ (store[o].live /\ ~m.err /\ m.obj = store[o]) => ~writes
                   /\ (~m.err /\ (~store[o].live \/ m.obj # store[o])) => writes
          /\ (At(o, "write") /\ pc' # pc) =>
                /\ Len(log') = Len(log) + 1
                /\ log'[Len(log')].o = o
                /\ log'[Len(log')].op =
                      (IF log[Len(log)].outcome = "notfound" THEN "create" ELSE "update")
                /\ \A x \in Objects \ {o} : store'[x] = store[x]
                /\ pc'.step # o]_vars

\* one pass made all three kinds of call: a create, an update of a drifted
\* object, and a Get that was followed by no write
C12_Witness ==
    /\ Finished /\ result = "ok"
    /\ \E i, j, k \in DOMAIN log :
          /\ log[i].op = "create" /\ log[i].o = "prometheusRule"
          /\ log[j].op = "update" /\ log[j].o = "scc" /\ log[j].outcome = "ok"
          /\ log[k].op = "get" /\ log[k].o = "consolePlugin" /\ log[k].outcome = "ok"
          /\ Writes({"consolePlugin"}) = {}


\* the operator config map, if there is one, holds no malformed flag value
\* and no label line without a colon
WellFormedConfig ==
    LET cfg == store["operatorConfigMap"]
    IN cfg.live =>
          /\ deployCSIKey \in DOMAIN cfg.data => ~ParseBool(cfg.data[deployCSIKey]).err
          /\ ~applyLabels(MapGet(cfg.data, metricsLabelsKey), Template).panic

\* C13: when passes keep being delivered and calls stop failing, a pass
\* eventually returns ok, wherever earlier passes were aborted, and a pass
\* that returns ok with the flag on leaves every managed resource in the
\* store.
C13_Convergence ==
    /\ WellFormedConfig => <>(Finished /\ result = "ok")
    /\ [](EnabledPassOk => \A o \in Managed : store[o].live)


\* C14: after a pass that returns ok with the flag on, no other writer acting
\* since it began, every resource synchronised by create-or-update holds
\* the desired content again, whatever another writer had put there before:
\* the spec of a workload, the rule content of the monitoring rule, the
\* configuration of the first webhook.
C14_DriftCorrected ==
    (EnabledPassOk /\ clean) =>
        \A o \in CreateOrUpdateObjs :
            /\ store[o].live
            /\ store[o].spec = "desired"
            /\ o = "whConfig" =>
                  (Len(store[o].hooks) > 0 /\ store[o].hooks[1].cfg = "desired")


\* the operator config map holds a DEPLOY_CSI value that is no boolean literal
MalformedFlag ==
    LET cfg == store["operatorConfigMap"]
    IN /\ cfg.live
       /\ deployCSIKey \in DOMAIN cfg.data
       /\ cfg.data[deployCSIKey] \notin
             {<<"1">>, <<"t">>, <<"T">>, <<"t","r","u","e">>, <<"T","r","u","e">>,
              <<"T","R","U","E">>, <<"0">>, <<"f">>, <<"F">>, <<"f","a","l","s","e">>,
              <<"F","a","l","s","e">>, <<"F","A","L","S","E">>}

\* C15: with a DEPLOY_CSI value that is no boolean literal, flag resolution
\* neither resolves the flag nor falls back to the CRD probe: the pass that
\* reaches it returns an error, and no pass makes a call for, or stores, any
\* CSI resource, whether the StorageCluster CRD exists or not.
C15_MalformedFlagIsFatal ==
    MalformedFlag =>
        /\ ~ResolvedTrue /\ ~ResolvedFalse
        /\ \A i \in DOMAIN log :
              log[i].o \notin CSIResources \cup {"storageClusterCRD", "clusterVersion"}
        /\ (Finished /\ log # <<>> /\ Last.step = "getDeployCSIConfig")
              => (result = "err" /\ Last.err)
        /\ \A o \in CSIResources : ~store[o].live

\* a pass ended on the parse error although the CRD, which would give the
\* default, is there
C15_Witness ==
    /\ MalformedFlag /\ store["storageClusterCRD"].live
    /\ Finished /\ result = "err"
    /\ Last.step = "getDeployCSIConfig" /\ Last.outcome = "parse"
    /\ passes = 2


\* the label specification in the stored operator config map
LabelText == MapGet(store["operatorConfigMap"].data, metricsLabelsKey)

\* the lines of a text, as pairs <<p, q>> of the positions that enclose them
\* (a newline, or the ends of the text)
LineSpans(t) ==
    LET cuts == {i \in 1..Len(t) : t[i] = NL} \cup {0, Len(t) + 1}
    IN {sp \in cuts \X cuts :
           sp[1] < sp[2] /\ ~\E c \in cuts : sp[1] < c /\ c < sp[2]}

LineOf(t, sp) == SubSeq(t, sp[1] + 1, sp[2] - 1)

\* a text without the blanks at its two ends
Stripped(t) ==
    LET inked == {i \in 1..Len(t) : t[i] \notin {" ", "\t", "\r", "\n"}}
    IN IF inked = {} THEN <<>>
       ELSE SubSeq(t, CHOOSE i \in inked : \A j \in inked : i <= j,
                      CHOOSE i \in inked : \A j \in inked : i >= j)

FirstColon(l) == CHOOSE i \in 1..Len(l) : l[i] = ":" /\ \A j \in 1..(i - 1) : l[j] # ":"

KeyOf(l) == Stripped(SubSeq(l, 1, FirstColon(l) - 1))

ValueOf(l) == Stripped(SubSeq(l, FirstColon(l) + 1, Len(l)))

\* every line of the text is empty or holds a colon
KeyValueLines(t) ==
    \A sp \in LineSpans(t) :
        LineOf(t, sp) = <<>> \/ \E i \in 1..Len(LineOf(t, sp)) : LineOf(t, sp)[i] = ":"

\* the mapping the text stands for: each key with the value of its last line
LabelsOf(t) ==
    LET full == {sp \in LineSpans(t) : LineOf(t, sp) # <<>>}
        keys == {KeyOf(LineOf(t, sp)) : sp \in full}
        last(k) == CHOOSE sp \in full :
                       /\ KeyOf(LineOf(t, sp)) = k
                       /\ \A sq \in full : KeyOf(LineOf(t, sq)) = k => sq[1] <= sp[1]
    IN [k \in keys |-> ValueOf(LineOf(t, last(k)))]

\* C16: for a label specification whose lines are empty or of the form
\* key:value, the labels the parser produces are exactly: for each non-empty
\* line, the text before its first colon, trimmed, mapped to the text after
\* that colon, trimmed, a later line for a key overriding an earlier one.
C16_LabelParsing ==
    (KeyValueLines(LabelText) /\ store["operatorConfigMap"].live) =>
        /\ At("prometheusRule", "write") => obj.labels = LabelsOf(LabelText)
        /\ EnabledPassOk => store["prometheusRule"].labels = LabelsOf(LabelText)
        /\ \A i \in DOMAIN log : log[i].outcome # "panic"

\* the monitoring rule was stored with the labels of a specification that
\* has an empty line, blanks around key and value, and a key given twice
C16_Witness ==
    /\ EnabledPassOk
    /\ LabelText = <<"a",":","b",":","c">> \o <<NL>> \o <<NL>>
                       \o <<" ","a"," ",":"," ","c"," ">>
    /\ store["prometheusRule"].labels = [k \in {<<"a">>} |-> <<"c">>]


\* the subscription carries the fixed label pair
Labelled(x) ==
    subscriptionLabelKey \in DOMAIN x.labels
        /\ x.labels[subscriptionLabelKey] = subscriptionLabelValue

\* C17: a step of a pass changes the stored subscription only by the update
\* of the labeling step, only when the subscription lacks the fixed label
\* pair, and only by adding that pair; a pass that lists a subscription
\* carrying the pair goes on without a write; no step creates or deletes
\* the subscription.
C17_SubscriptionOnlyLabelled ==
    [][pc' # pc =>
          LET old == store["subscription"]
              new == store'["subscription"]
          IN /\ new.live = old.live
             /\ new # old =>
                   /\ At("subscription", "write")
                   /\ ~Labelled(old)
                   /\ new = [old EXCEPT
                                !.labels = [k \in DOMAIN old.labels \cup {subscriptionLabelKey}
                                               |-> IF k = subscriptionLabelKey
                                                   THEN subscriptionLabelValue
                                                   ELSE old.labels[k]],
                                !.rv = old.rv + 1]
             /\ (At("subscription", "read") /\ Labelled(old))
                   => pc' = After("subscription")
             /\ \A i \in DOMAIN log' :
                   (log'[i].o = "subscription" /\ log'[i].op # "list")
                       => (log'[i].op = "update" /\ i > 1 /\ log'[i - 1].op = "list")]_vars

\* a pass labelled a subscription another writer had changed, and the next
\* pass found the label and wrote nothing
C17_Witness ==
    /\ passes = 2 /\ Finished /\ result = "ok"
    /\ store["subscription"].spec = "drift" /\ Labelled(store["subscription"])
    /\ store["subscription"].rv = 3
    /\ Writes({"subscription"}) = {}


\* C18: after a pass that returns ok, no other writer acting since it began,
\* the first webhook of the stored registration selects objects by a single
\* label pair, which is on the stored subscription, and selects the
\* operator's namespace only, whatever the registration held before.
C18_WebhookTargetsSubscription ==
    (Finished /\ result = "ok" /\ clean) =>
        LET wh == store["whConfig"]
            sub == store["subscription"]
        IN /\ wh.live /\ Len(wh.hooks) > 0
           /\ Cardinality(DOMAIN wh.hooks[1].objectSelector) = 1
           /\ \A k \in DOMAIN wh.hooks[1].objectSelector :
                 k \in DOMAIN sub.labels /\ sub.labels[k] = wh.hooks[1].objectSelector[k]
           /\ DOMAIN wh.hooks[1].namespaceSelector = {"kubernetes.io/metadata.name"}
           /\ wh.hooks[1].namespaceSelector["kubernetes.io/metadata.name"]
                 = "openshift-storage"

\* a pass returned ok after updating a registration whose first webhook had
\* been given other selectors
C18_Witness ==
    /\ Finished /\ result = "ok" /\ clean
    /\ \E i \in DOMAIN log :
          log[i].o = "whConfig" /\ log[i].op = "update" /\ log[i].outcome = "ok"
    /\ Len(store["whConfig"].hooks) = 2
    /\ Labelled(store["subscription"])


\* C19: no step of a pass removes an object from the store, and no call of a
\* pass is anything but a get, a list, a create or an update; an object
\* leaves the store only by garbage collection or another writer.
C19_NeverDeletes ==
    [][/\ pc' # pc => \A o \in Objects : store[o].live => store'[o].live
       /\ \A i \in DOMAIN log' :
             log'[i].op \in {"get", "list", "create", "update", "local"}]_vars

\* two passes ran to their end over a store in which another writer had
\* created a config map, and garbage collection, not a pass, later removed
\* what the controller's deployment owned
C19_Witness ==
    /\ passes = 2 /\ Finished
    /\ \E i \in DOMAIN log : log[i].o \in WriteOnce /\ log[i].outcome = "exists"
    /\ ~store["OperatorDeployment"].live
    /\ \A o \in Workloads : ~store[o].live
    /\ \A o \in CSIDrivers : store[o].live


\* C20: when a pass writes the monitoring rule, the labels of the label
\* specification are added to the labels the object had: a label whose key
\* the specification does not define is kept with its value, a key the
\* specification defines gets the specification's value.
C20_ApplyLabelsAdds ==
    [][( /\ At("prometheusRule", "write") /\ pc' # pc
         /\ store["prometheusRule"].live
         /\ store'["prometheusRule"] # store["prometheusRule"]
         /\ KeyValueLines(LabelText) ) =>
          LET had == store["prometheusRule"].labels
              has == store'["prometheusRule"].labels
              given == LabelsOf(LabelText)
          IN /\ \A k \in DOMAIN given : k \in DOMAIN has /\ has[k] = given[k]
             /\ \A k \in DOMAIN had \ DOMAIN given :
                   k \in DOMAIN has /\ has[k] = had[k]]_vars


\* C21: every request in the work queue or in the hands of a worker has the
\* key of the trigger object, so the workers, which never run one key twice
\* at a time, run at most one Reconcile at any time, however many workers
\* there are and whatever events arrive meanwhile.
C21_AtMostOnePass ==
    /\ \A r \in queue \cup processing : r = [namespace |-> "", name |-> "version"]
    /\ Cardinality(processing) <= 1

\* while a worker runs Reconcile, an event of another watch has put a
\* request back in the queue, where it waits although a worker is free
C21_Witness ==
    /\ Cardinality(processing) = 1 /\ Cardinality(processing) < MaxWorkers
    /\ queue # {}
    /\ event.kind = "Subscription" /\ requests # <<>>


\* the text has a line that is not empty and holds no colon
ColonlessLine(t) ==
    \E sp \in LineSpans(t) :
        /\ LineOf(t, sp) # <<>>
        /\ \A i \in 1..Len(LineOf(t, sp)) : LineOf(t, sp)[i] # ":"

\* C22: with a label specification that has a non-empty line without a
\* colon, a line of blanks included, no step of a pass changes the stored
\* monitoring rule and no create or update is issued for it; the pass that
\* reaches the monitoring-rule step ends there in the parser's fault, with
\* every other managed resource written to the store.
C22_ColonlessLineFaults ==
    [][(ColonlessLine(LabelText) /\ store["operatorConfigMap"].live) =>
          /\ store'["prometheusRule"] = store["prometheusRule"]
          /\ Writes({"prometheusRule"}) = {}
          /\ \A i \in DOMAIN log' :
                log'[i].o = "prometheusRule" => log'[i].op \in {"get", "local"}
          /\ (pc' = Idle /\ log' # <<>> /\ log'[Len(log')].step = "prometheusRule") =>
                /\ result' = "panic"
                /\ log'[Len(log')].outcome = "panic"
                /\ \A o \in Managed \ {"prometheusRule"} : store'[o].live]_vars

\* a pass faulted on a line of one blank, leaving the monitoring rule of an
\* earlier installation as it was and the other resources in the store
C22_Witness ==
    /\ LabelText = <<"a",":","b">> \o <<NL>> \o <<" ">>
    /\ Finished /\ result = "panic"
    /\ Last.step = "prometheusRule"
    /\ store["prometheusRule"].live /\ store["prometheusRule"].spec = "old"
    /\ store["prometheusRule"].rv = 1
    /\ \A o \in Workloads \cup CSIDrivers : store[o].live


\* C23: while the operator's subscription or the console deployment is
\* missing, a pass gets no further than the step that needs it: it ends
\* there with an error, with the webhook registration already stored, and
\* no step of it creates or changes a CSI resource.
C23_PrerequisitesBlock ==
    [][( /\ pc' # pc
         /\ \E o \in {"subscription", "consoleDeployment"} : ~store[o].live ) =>
          LET blocked == IF ~store["subscription"].live THEN "subscription"
                         ELSE "consoleDeployment"
          IN /\ pc'.step \in {"idle", "whConfig", "subscription", "consoleDeployment"}
             /\ \A o \in CSIResources : store'[o] = store[o]
             /\ \A i \in DOMAIN log' : log'[i].o \notin CSIResources
             /\ (pc # Idle /\ pc' = Idle) =>
                   /\ result' = "err"
                   /\ log'[Len(log')].step = blocked
                   /\ log'[Len(log')].err
                   /\ store'["whConfig"].live]_vars

\* the second pass in a row stopped at the console step: the subscription is
\* there and labelled, the console deployment is not, and nothing of the
\* CSI resource set is in the store
C23_Witness ==
    /\ passes = 2 /\ Finished /\ result = "err"
    /\ Last.step = "consoleDeployment" /\ Last.outcome = "notfound"
    /\ store["subscription"].live /\ ~store["consoleDeployment"].live
    /\ store["whConfig"].live
    /\ \A o \in CSIResources : ~store[o].live


====
